---- MODULE Spec2Model ----
(***************************************************************************)
(* Model of the task persistence layer of taskify and of the hook that     *)
(* mirrors it for the screens:                                             *)
(*   src/src/features/tasks/services/taskService.ts  (TaskService)         *)
(*   src/src/features/tasks/hooks/useTasks.ts        (useTasks)            *)
(* of the tag registry, src/unnamed/part_006 (TagService), and of the      *)
(* submit of src/src/components/AddTaskBottomSheet.tsx.                    *)
(* The store keeps the whole task collection as one JSON document under a  *)
(* single AsyncStorage key.  Every mutating call is an async read-modify-  *)
(* write of that document; the awaits are the points where other calls may *)
(* interleave.                                                             *)
(*                                                                         *)
(* A storage request (getItem / setItem / removeItem) takes effect at one  *)
(* instant; the code that runs when the awaiting call resumes only touches *)
(* the call's own locals before it issues its next request, so it is       *)
(* folded into the step of the request it follows.                         *)
(*                                                                         *)
(* JavaScript values: a string is a tuple of one-character strings, the    *)
(* value undefined is the marker Undef, a Date is its millisecond count.   *)
(***************************************************************************)
EXTENDS Integers, Sequences, FiniteSets, TLC

\* ---- bounds of the model ----
NumProcs == 2      \* async calls that may be in flight together
MaxOps   == 4      \* calls started in one behaviour, one after the other
MaxConc  == 2      \* calls started in one behaviour when they may overlap
MaxIds   == 2      \* ids handed out by generateId
MaxTime  == 2      \* last reading of the millisecond clock
MaxFailOps == 2    \* calls started in one behaviour when requests may be rejected
NumVMs   == 2      \* useTasks instances
MaxVmOps == 2      \* operations started in one behaviour with the screens mounted
MaxVmFailOps == 2  \* the same when requests may be rejected
MaxLifeOps == 2    \* the same when the screens are mounted and unmounted
MaxLoadOps == 1    \* the same when every load is awaited to its end
MaxTagCalls == 3   \* createOrGetTag calls started in one behaviour
MaxSheetOps == 2   \* submits of the add-task sheet that reach addTask
MaxMirror == 3     \* tasks of a mirror the derived values are computed for

Procs     == 1..NumProcs
Ids       == 1..MaxIds
VMNames   == <<"V1", "V2", "V3">>
Listeners == {"L1", "L2"} \cup {VMNames[i] : i \in 1..Len(VMNames)}

Undef == <<"undefined">>

\* ---- strings -----------------------------------------------------------
\* the white space String.prototype.trim removes
IsSpace(c) == c \in {" ", "\t", "\n"}

\* s from its first character that is not white space
TrimStart(s) ==
  IF \A k \in 1..Len(s) : IsSpace(s[k]) THEN <<>>
  ELSE SubSeq(s, CHOOSE k \in 1..Len(s) :
                   ~IsSpace(s[k]) /\ \A j \in 1..(k - 1) : IsSpace(s[j]),
              Len(s))

\* s up to its last character that is not white space
TrimEnd(s) ==
  IF \A k \in 1..Len(s) : IsSpace(s[k]) THEN <<>>
  ELSE SubSeq(s, 1, CHOOSE k \in 1..Len(s) :
                      ~IsSpace(s[k]) /\ \A j \in (k + 1)..Len(s) : IsSpace(s[j]))

\* String.prototype.trim
Trim(s) == TrimEnd(TrimStart(s))

\* input.description?.trim()
OptTrim(s) == IF s = Undef THEN Undef ELSE Trim(s)

\* ---- inputs the callers are drawn from ---------------------------------
CreateInputs ==
  { [title |-> <<"a">>, description |-> Undef],
    [title |-> <<" ", "b", " ">>, description |-> <<"d", " ">>] }

\* Partial<Omit<Task,'id'|'createdAt'>>: the keys present are the fields named
UpdateInputs ==
  { [completed |-> TRUE, description |-> <<"e">>] }

\* the updates object built by the edit sheet (title, description always named)
EditInputs == { [title |-> <<"c">>, description |-> <<>>] }

\* ---- the persisted document --------------------------------------------
NoDoc == [present |-> FALSE, wellFormed |-> TRUE, doc |-> <<>>]

\* Date.prototype.toJSON / new Date(isoString)
ToISO(ms)   == <<"iso", ms>>
FromISO(s)  == s[2]

\* JSON.stringify of one task: Dates become ISO strings, a key whose value
\* is undefined is left out
StringifyTask(t) ==
  LET base == [id |-> t.id, title |-> t.title, completed |-> t.completed,
               createdAt |-> ToISO(t.createdAt), updatedAt |-> ToISO(t.updatedAt)]
  IN  IF t.description = Undef THEN base
      ELSE base @@ ("description" :> t.description)

Stringify(tasks) == [i \in 1..Len(tasks) |-> StringifyTask(tasks[i])]

\* variant: createdAt: new Date(task.updatedAt)
ReviveTaskSwapped(j) ==
  [id |-> j.id, title |-> j.title,
   description |-> IF "description" \in DOMAIN j THEN j.description ELSE Undef,
   completed |-> j.completed,
   createdAt |-> FromISO(j.updatedAt), updatedAt |-> FromISO(j.updatedAt)]

\* the map callback of getAllTasks
ReviveTask(j) ==
  [id |-> j.id, title |-> j.title,
   description |-> IF "description" \in DOMAIN j THEN j.description ELSE Undef,
   completed |-> j.completed,
   createdAt |-> FromISO(j.createdAt), updatedAt |-> FromISO(j.updatedAt)]

\* what getAllTasks returns for a storage content: [] for null, [] from the
\* catch block when JSON.parse or the map throws
ReadTasks(st) ==
  IF ~st.present THEN <<>>
  ELSE IF ~st.wellFormed THEN <<>>
  ELSE [i \in 1..Len(st.doc) |-> ReviveTask(st.doc[i])]

\* ---- helpers of the operations -----------------------------------------
\* variant: a missing id is taken for the first element
FindIndexOrFirst(tasks, taskId) ==
  IF \E i \in 1..Len(tasks) : tasks[i].id = taskId
  THEN CHOOSE i \in 1..Len(tasks) :
         /\ tasks[i].id = taskId
         /\ \A j \in 1..(i - 1) : tasks[j].id # taskId
  ELSE IF Len(tasks) > 0 THEN 1 ELSE 0

\* tasks.findIndex(task => task.id === taskId), 0 for -1
FindIndex(tasks, taskId) ==
  IF \E i \in 1..Len(tasks) : tasks[i].id = taskId
  THEN CHOOSE i \in 1..Len(tasks) :
         /\ tasks[i].id = taskId
         /\ \A j \in 1..(i - 1) : tasks[j].id # taskId
  ELSE 0

\* variant: { ...task, updatedAt: new Date(), ...updates }
MergeUpdatesLast(task, updates, time) ==
  [k \in DOMAIN task |->
     IF k \in DOMAIN updates THEN updates[k]
     ELSE IF k = "updatedAt" THEN time
     ELSE task[k]]

\* variant: { id: task.id, createdAt: task.createdAt, ...updates, updatedAt }
\* with the fields that are not named reset
MergeLosesRest(task, updates, time) ==
  [k \in DOMAIN task |->
     IF k = "updatedAt" THEN time
     ELSE IF k \in DOMAIN updates THEN updates[k]
     ELSE IF k \in {"id", "createdAt"} THEN task[k]
     ELSE IF k = "completed" THEN FALSE
     ELSE IF k = "title" THEN <<>>
     ELSE Undef]

\* { ...task, ...updates, updatedAt: new Date() }
MergeUpdate(task, updates, time) ==
  [k \in DOMAIN task |->
     IF k = "updatedAt" THEN time
     ELSE IF k \in DOMAIN updates THEN updates[k]
     ELSE task[k]]

\* variant: the task is pushed twice
PushTwice(tasks, newTask) == Append(Append(tasks, newTask), newTask)

\* tasks.push(newTask)
Push(tasks, newTask) == Append(tasks, newTask)

\* variant: { completed: true }
ToggleSets(task) == [completed |-> TRUE]

\* { completed: !task.completed }
ToggleUpdates(task) == [completed |-> ~task.completed]

\* variant: tasks.filter(task => task.id === taskId)
FilterKeep(tasks, taskId) ==
  LET Same(t) == t.id = taskId IN SelectSeq(tasks, Same)

\* tasks.filter(task => task.id !== taskId)
FilterOut(tasks, taskId) ==
  LET Keep(t) == t.id # taskId IN SelectSeq(tasks, Keep)

\* a Task object handed back as the updates argument: the keys it carries
AsUpdates(task) ==
  [k \in {f \in DOMAIN task : f # "description" \/ task[f] # Undef} |-> task[k]]

IdsOf(tasks) == {tasks[i].id : i \in 1..Len(tasks)}

\* ---- TaskService.validateTaskInput ------------------------------------
MaxTitleLength       == 100
MaxDescriptionLength == 500

\* JavaScript truthiness of an optional string: undefined and '' are falsy
Truthy(str) == str # Undef /\ str # <<>>

\* errors.push(message)
PushIf(errors, cond, message) == IF cond THEN Append(errors, message) ELSE errors

\* variant: the lengths are taken before trimming
ValidateUntrimmed(input) ==
  LET e1 == PushIf(<<>>, ~Truthy(input.title) \/ Len(Trim(input.title)) = 0,
                   "Task title is required")
      e2 == PushIf(e1, Truthy(input.title) /\ Len(input.title) > MaxTitleLength,
                   "Task title must be 100 characters or less")
  IN  PushIf(e2, Truthy(input.description)
                   /\ Len(input.description) > MaxDescriptionLength,
             "Task description must be 500 characters or less")

ValidateTaskInput(input) ==
  LET e1 == PushIf(<<>>, ~Truthy(input.title) \/ Len(Trim(input.title)) = 0,
                   "Task title is required")
      e2 == PushIf(e1, Truthy(input.title) /\ Len(Trim(input.title)) > MaxTitleLength,
                   "Task title must be 100 characters or less")
  IN  PushIf(e2, Truthy(input.description)
                   /\ Len(Trim(input.description)) > MaxDescriptionLength,
             "Task description must be 500 characters or less")

\* a string of n characters c
Repeat(c, n) == [i \in 1..n |-> c]

\* titles and descriptions around the two limits, with and without blanks
ValidateTitles ==
  { Undef, <<>>, <<" ">>, <<"\t", " ", "\n">>, <<"o", "k">>, <<" ", "o", "k", " ">>,
    Repeat("x", MaxTitleLength), Repeat("x", MaxTitleLength + 1),
    <<" ">> \o Repeat("x", MaxTitleLength) \o <<" ">>,
    <<" ">> \o Repeat("x", MaxTitleLength + 1),
    Repeat(" ", MaxTitleLength + 1) }

ValidateDescriptions ==
  { Undef, <<>>, <<" ">>, <<"d">>, <<" ", "d", "\n">>,
    Repeat("y", MaxDescriptionLength), Repeat("y", MaxDescriptionLength + 1),
    <<" ">> \o Repeat("y", MaxDescriptionLength) \o <<" ">>,
    <<"\t">> \o Repeat("y", MaxDescriptionLength + 1),
    Repeat(" ", MaxDescriptionLength + 1) }

ValidateInputs ==
  {[title |-> t, description |-> d] : t \in ValidateTitles, d \in ValidateDescriptions}

\* ---- useTasks: the values derived from tasks and filter ----------------
\* String.prototype.toLowerCase on the letters used
LowerOf(c) ==
  CASE c = "A" -> "a" [] c = "B" -> "b" [] c = "C" -> "c" [] OTHER -> c

ToLowerCase(str) == [i \in 1..Len(str) |-> LowerOf(str[i])]

\* String.prototype.includes
Includes(str, q) ==
  \E i \in 1..(Len(str) - Len(q) + 1) : SubSeq(str, i, i + Len(q) - 1) = q

\* TaskStatus
Statuses == {"all", "active", "completed", "overdue"}

\* variant: the cases of the switch exchanged
StatusKeepsSwapped(task, status) ==
  CASE status = "active" -> task.completed
    [] status = "completed" -> ~task.completed
    [] OTHER -> TRUE

\* the switch on filter.status: FALSE where the callback returns false
StatusKeeps(task, status) ==
  CASE status = "active" -> ~task.completed
    [] status = "completed" -> task.completed
    [] OTHER -> TRUE

\* the search part of the filter callback
SearchKeeps(task, filter) ==
  IF filter.searchQuery # Undef /\ Truthy(Trim(filter.searchQuery))
  THEN LET query == ToLowerCase(filter.searchQuery)
           titleMatch == Includes(ToLowerCase(task.title), query)
           descriptionMatch ==
             IF task.description = Undef THEN FALSE
             ELSE Includes(ToLowerCase(task.description), query)
       IN  ~(~titleMatch /\ ~descriptionMatch)
  ELSE TRUE

\* tasks.filter(task => ...)
FilterTasks(tasks, filter) ==
  LET Keep(task) == StatusKeeps(task, filter.status) /\ SearchKeeps(task, filter)
  IN  SelectSeq(tasks, Keep)

\* variant: return aTime - bTime
CompareOldestFirst(a, b) ==
  IF a.completed # b.completed THEN (IF a.completed THEN 1 ELSE -1)
  ELSE a.createdAt - b.createdAt

\* the comparator of the sort
Compare(a, b) ==
  IF a.completed # b.completed THEN (IF a.completed THEN 1 ELSE -1)
  ELSE b.createdAt - a.createdAt

\* Array.prototype.sort is stable: x goes behind every element it does not
\* have to precede
RECURSIVE InsertSorted(_, _)
InsertSorted(sorted, x) ==
  IF sorted = <<>> THEN <<x>>
  ELSE IF Compare(x, Head(sorted)) < 0 THEN <<x>> \o sorted
  ELSE <<Head(sorted)>> \o InsertSorted(Tail(sorted), x)

RECURSIVE SortFrom(_, _)
SortFrom(sorted, rest) ==
  IF rest = <<>> THEN sorted
  ELSE SortFrom(InsertSorted(sorted, Head(rest)), Tail(rest))

\* [...filteredTasks].sort(comparator)
SortTasks(tasks) == SortFrom(<<>>, tasks)

\* the filteredTasks the hook returns
SortedFilteredTasks(v) == SortTasks(FilterTasks(v.tasks, v.filter))

\* variant: the counts are taken from the filtered list
CountedFiltered(v) == FilterTasks(v.tasks, v.filter)

\* the list the statistics are computed from
Counted(v) == v.tasks

TotalTasks(v) == Len(Counted(v))

CompletedTasks(v) ==
  LET Done(task) == task.completed IN Len(SelectSeq(Counted(v), Done))

ActiveTasks(v) == TotalTasks(v) - CompletedTasks(v)

\* ---- TagService: the registry document and getNextColor ---------------
\* TAG_COLORS.length; a colour is its position in TAG_COLORS, from 1
NumTagColors == 12

TAG_COLORS == [i \in 1..NumTagColors |-> i]

\* content of the key '@simpletask_tags'
NoTags == [present |-> FALSE, doc |-> <<>>]

\* JSON.stringify(tags): a tag has the three string fields id, name, color
StringifyTags(tags) ==
  [i \in 1..Len(tags) |->
     [id |-> tags[i].id, name |-> tags[i].name, color |-> tags[i].color]]

\* what getAllTags returns for a storage content
ReadTags(st) == IF ~st.present THEN <<>> ELSE st.doc

\* variant: tag.name === normalizedName
MatchesExactly(tag, normalizedName) == tag.name = normalizedName

\* tag.name.toLowerCase() === normalizedName
Matches(tag, normalizedName) == ToLowerCase(tag.name) = normalizedName

\* existingTags.find(...): the position of the first match, 0 for undefined
FindTag(existingTags, normalizedName) ==
  IF \E i \in 1..Len(existingTags) : Matches(existingTags[i], normalizedName)
  THEN CHOOSE i \in 1..Len(existingTags) :
         /\ Matches(existingTags[i], normalizedName)
         /\ \A j \in 1..(i - 1) : ~Matches(existingTags[j], normalizedName)
  ELSE 0

\* getNextColor
GetNextColor(existingTags) ==
  LET usedColors == {existingTags[i].color : i \in 1..Len(existingTags)}
      Available(color) == color \notin usedColors
      availableColors == SelectSeq(TAG_COLORS, Available)
  IN  IF Len(availableColors) > 0 THEN availableColors[1]
      ELSE TAG_COLORS[(Len(existingTags) % NumTagColors) + 1]

\* the names createOrGetTag is called with
TagNames ==
  { <<"A">>, <<" ", "a">>, <<"a", " ", "\t">>, <<"B">>, <<"A", " ", "b">>,
    <<"a", " ", "B", " ">> }

NoTag == [id |-> 0, name |-> <<>>, color |-> 0]

\* a createOrGetTag call: name: its argument; tags: updatedTags; tag: newTag
IdleTagCall == [pc |-> "idle", seq |-> 0, name |-> <<>>, tags |-> <<>>, tag |-> NoTag]

\* the createOrGetTag call that completed last: the tag it returned, and
\* whether it called saveTags
NoTagCall == [seq |-> 0, name |-> <<>>, tag |-> NoTag, wrote |-> FALSE]

\* the registry and the calls on it: issued: ids handed out by generateId
NoTagRegistry ==
  [storage |-> NoTags, call |-> [p \in Procs |-> IdleTagCall], issued |-> 0,
   nCalls |-> 0, last |-> NoTagCall]

\* ---- replay on an abstract list ----------------------------------------
AbsUpdate(list, taskId, updates, time) ==
  [i \in 1..Len(list) |->
     IF list[i].id = taskId
     THEN [k \in DOMAIN list[i] |->
             IF k = "updatedAt" THEN time
             ELSE IF k \in DOMAIN updates THEN updates[k]
             ELSE list[i][k]]
     ELSE list[i]]

AbsToggle(list, taskId, time) ==
  [i \in 1..Len(list) |->
     IF list[i].id = taskId
     THEN [list[i] EXCEPT !.completed = ~@, !.updatedAt = time]
     ELSE list[i]]

AbsDelete(list, taskId) ==
  LET Other(t) == t.id # taskId IN SelectSeq(list, Other)

\* the effect on the abstract list of a completed call c whose clock reading
\* (if it took one) was time
Replay(list, c, time) ==
  CASE c.kind = "create" -> Append(list, c.task)
    [] c.kind \in {"update", "edit", "editvm"} ->
         AbsUpdate(list, c.id, c.updates, time)
    [] c.kind = "toggle" -> AbsToggle(list, c.id, time)
    [] c.kind = "delete" -> AbsDelete(list, c.id)
    [] c.kind \in {"clearAll", "clearAllTasks"} -> <<>>
    [] OTHER -> list

\* ---- state -------------------------------------------------------------
VARIABLES
  storage,     \* content of the key '@simpletask_tasks'
  listeners,   \* TaskService.listeners
  call,        \* per async call in flight: its position and locals
  now,         \* last reading of the millisecond clock (new Date())
  nextId,      \* ids handed out so far + 1
  nOps,        \* calls started
  last,        \* the call that completed most recently, with its result
  prev,        \* the call that completed before it
  emitted,     \* the listener calls made by the latest step, and for which call
  abs,         \* the abstract list the completed calls are replayed on
  born,        \* createdAt assigned by createTask to each id (-1: not issued)
  vm,          \* per useTasks instance: its React state and its loads in flight
  checked,     \* the last validateTaskInput call: its input and the list returned
  tagReg,      \* the tag registry of TagService and the calls on it
  sheet        \* AddTaskBottomSheet: its latest submit and the alert it showed

vars == <<storage, listeners, call, now, nextId, nOps, last, prev, emitted, abs, born,
          vm, checked, tagReg, sheet>>

\* the variables of the store and its callers
storeVars == <<storage, listeners, call, now, nextId, nOps, last, prev, emitted, abs, born>>

NoTask == [id |-> 0, title |-> <<>>, description |-> Undef, completed |-> FALSE,
           createdAt |-> 0, updatedAt |-> 0]

NoEmit == [l \in Listeners |-> 0]

\* seq: number of the call (-n for the call that follows up call n); updates:
\* the updates argument (the input of createTask); old: the task the call
\* found; task: the task it built; tasks: the collection it works on; stale:
\* the calls that wrote storage between this call's read and now; at: the
\* reading of the clock the call took for updatedAt; fault: the storage
\* request of the call that was rejected ("read", "write"), if any
IdleCall ==
  [kind |-> "none", pc |-> "idle", seq |-> 0, id |-> 0, updates |-> <<>>,
   old |-> NoTask, task |-> NoTask, tasks |-> <<>>, stale |-> {}, at |-> 0,
   fault |-> "none"]

\* a completed call: what it returned (ret; the task is in task, a
\* collection in tasks)
NoCall ==
  [kind |-> "none", seq |-> 0, id |-> 0, updates |-> <<>>, old |-> NoTask,
   task |-> NoTask, tasks |-> <<>>, stale |-> {}, at |-> 0, fault |-> "none",
   ret |-> "none"]

\* of the call before the last one only the outcome is kept
NoPrev == [kind |-> "none", seq |-> 0, id |-> 0, old |-> NoTask,
           task |-> NoTask, stale |-> {}, at |-> 0, ret |-> "none"]

Older(c) == [kind |-> c.kind, seq |-> c.seq, id |-> c.id, old |-> c.old,
             task |-> c.task, stale |-> c.stale, at |-> c.at, ret |-> c.ret]

Silent == [seq |-> 0, calls |-> NoEmit]

\* ---- useTasks: React state ----------------------------------------------
\* the useTasks instances that can be mounted; each subscribes one listener,
\* named like the instance
VMs == {VMNames[i] : i \in 1..NumVMs}

\* the value null of the error state
Null == "null"

\* useState<TaskFilter>({ status: 'all' })
AllFilter == [status |-> "all", searchQuery |-> Undef]

\* an instance that is not mounted; tasks, loading, error, filter have the
\* initial values of the useState calls; loads: its loadTasks calls in
\* flight; awaits: the store calls its operations are awaiting
Unmounted ==
  [mounted |-> FALSE, tasks |-> <<>>, loading |-> TRUE, error |-> Null,
   filter |-> AllFilter, loads |-> 0, awaits |-> {}]

\* AddTaskBottomSheet before any submit; input: the CreateTaskInput handed
\* to onTaskAdded; awaits: the store call the awaited addTask is waiting for
\* (0: none); alert: the message of the last Alert.alert
NoSubmit ==
  [input |-> [title |-> Undef, description |-> Undef], awaits |-> 0, alert |-> "none"]

NoCheck == [called |-> FALSE, input |-> [title |-> Undef, description |-> Undef],
            errors |-> <<>>]

\* no screen is mounted, nothing has been validated, no tag asked for
NoViewModel ==
  /\ vm = [v \in VMs |-> Unmounted]
  /\ checked = NoCheck
  /\ tagReg = NoTagRegistry
  /\ sheet = NoSubmit

\* first launch: nothing stored yet
InitEmpty ==
  /\ NoViewModel
  /\ storage = NoDoc
  /\ listeners = {}
  /\ call = [p \in Procs |-> IdleCall]
  /\ now = 0
  /\ nextId = 1
  /\ nOps = 0
  /\ last = NoCall
  /\ prev = NoPrev
  /\ emitted = Silent
  /\ abs = <<>>
  /\ born = [i \in Ids |-> -1]

\* a later launch: an earlier session has created and saved one task
SavedTask == [id |-> 1, title |-> <<"a">>, description |-> Undef,
              completed |-> FALSE, createdAt |-> 0, updatedAt |-> 0]

InitSaved ==
  /\ NoViewModel
  /\ storage = [present |-> TRUE, wellFormed |-> TRUE, doc |-> Stringify(<<SavedTask>>)]
  /\ listeners = {}
  /\ call = [p \in Procs |-> IdleCall]
  /\ now = 0
  /\ nextId = 2
  /\ nOps = 0
  /\ last = NoCall
  /\ prev = NoPrev
  /\ emitted = Silent
  /\ abs = <<SavedTask>>
  /\ born = [i \in Ids |-> IF i = 1 THEN 0 ELSE -1]

Init == InitEmpty \/ InitSaved

\* ---- TaskService.emitChange --------------------------------------------
\* the listeners whose callback throws when it is called
Throwing == {"L2"}

\* l()
Listener(l) == IF l \in Throwing THEN "throws" ELSE "returns"

\* Array.from(this.listeners): the listeners in insertion order, which the
\* set does not record: any order of its elements
Orders(ls) ==
  {o \in [1..Cardinality(ls) -> ls] : \A i, j \in 1..Cardinality(ls) : o[i] = o[j] => i = j}

\* variant: l() outside of try/catch
CallBare(l) == Listener(l)

\* try { l() } catch (err) { console.error(...) }
TryCall(l) == IF Listener(l) = "throws" THEN "returns" ELSE Listener(l)

\* the for loop: the listeners called, and whether an exception left the loop
RECURSIVE ForEach(_)
ForEach(order) ==
  IF order = <<>> THEN [called |-> {}, threw |-> FALSE]
  ELSE IF TryCall(Head(order)) = "throws"
       THEN [called |-> {Head(order)}, threw |-> TRUE]
       ELSE LET rest == ForEach(Tail(order))
            IN  [called |-> {Head(order)} \cup rest.called, threw |-> rest.threw]

\* variant: the first listener that is called ends the loop
EmitChangeFirst(order) ==
  [calls |-> [l \in Listeners |-> IF order # <<>> /\ l = Head(order) THEN 1 ELSE 0],
   threw |-> FALSE]

\* how often each listener is called by emitChange(), and whether it throws
EmitChange(order) ==
  LET loop == ForEach(order)
  IN  [calls |-> [l \in Listeners |-> IF l \in loop.called THEN 1 ELSE 0],
       threw |-> loop.threw]

Emit(c, e) == [seq |-> c.seq, calls |-> e.calls]

\* what a call returns after emitChange(): an exception of emitChange is
\* caught by the catch block around it and thrown on
Returns(e, ret) == IF e.threw THEN "throw" ELSE ret

\* ---- generateId (utils, source not available) --------------------------
GenerateId == nextId

\* ---- new Date() --------------------------------------------------------
\* the clock readings a call can get: the last reading or a later one
Clock == {t \in now..(now + 1) : t <= MaxTime}

\* ---- starting and completing a call ------------------------------------
Free(p) == call[p].pc = "idle"
Quiet   == \A p \in Procs : Free(p)
\* a new call takes the first free slot
CanStart(p) == Free(p) /\ nOps < MaxOps /\ \A q \in 1..(p - 1) : ~Free(q)

Begin(k, firstPc) ==
  [IdleCall EXCEPT !.kind = k, !.pc = firstPc, !.seq = nOps + 1]

Result(c, r, ts) ==
  [kind |-> c.kind, seq |-> c.seq, id |-> c.id, updates |-> c.updates,
   old |-> c.old, task |-> c.task, tasks |-> ts, stale |-> c.stale,
   at |-> c.at, fault |-> c.fault, ret |-> r]

\* a write by call p makes the read of every other call in flight stale
Staled(p) ==
  [q \in Procs |->
     IF q # p /\ call[q].pc \in {"c_write", "u_write", "d_write"}
     THEN [call[q] EXCEPT !.stale = @ \cup {call[p].seq}]
     ELSE call[q]]

\* createTask up to its first await: the task is built before the read
CreateTask(p, input) ==
  /\ CanStart(p)
  /\ nextId <= MaxIds
  /\ \E t1 \in Clock : \E t2 \in {t \in t1..(t1 + 1) : t <= MaxTime} :
       /\ now' = t2
       /\ call' = [call EXCEPT ![p] =
            [Begin("create", "c_read") EXCEPT
               !.task = [id |-> GenerateId,
                         title |-> Trim(input.title),
                         description |-> OptTrim(input.description),
                         completed |-> FALSE,
                         createdAt |-> t1,
                         updatedAt |-> t2],
               !.updates = input,
               !.at = t2,
               !.id = GenerateId]]
       /\ born' = [born EXCEPT ![GenerateId] = t1]
  /\ nextId' = nextId + 1
  /\ nOps' = nOps + 1
  /\ UNCHANGED <<storage, listeners, last, prev, abs>>
  /\ emitted' = Silent

UpdateTask(p, taskId, updates) ==
  /\ CanStart(p)
  /\ call' = [call EXCEPT ![p] =
       [Begin("update", "u_read") EXCEPT !.id = taskId, !.updates = updates]]
  /\ nOps' = nOps + 1
  /\ UNCHANGED <<storage, listeners, now, nextId, last, prev, abs, born>>
  /\ emitted' = Silent

\* EditTaskBottomSheet.handleSubmit: TaskService.updateTask(task.id, updates)
EditSubmit(p, taskId, updates) ==
  /\ CanStart(p)
  /\ call' = [call EXCEPT ![p] =
       [Begin("edit", "u_read") EXCEPT !.id = taskId, !.updates = updates]]
  /\ nOps' = nOps + 1
  /\ UNCHANGED <<storage, listeners, now, nextId, last, prev, abs, born>>
  /\ emitted' = Silent

ToggleTaskCompletion(p, taskId) ==
  /\ CanStart(p)
  /\ call' = [call EXCEPT ![p] = [Begin("toggle", "t_read") EXCEPT !.id = taskId]]
  /\ nOps' = nOps + 1
  /\ UNCHANGED <<storage, listeners, now, nextId, last, prev, abs, born>>
  /\ emitted' = Silent

DeleteTask(p, taskId) ==
  /\ CanStart(p)
  /\ call' = [call EXCEPT ![p] = [Begin("delete", "d_read") EXCEPT !.id = taskId]]
  /\ nOps' = nOps + 1
  /\ UNCHANGED <<storage, listeners, now, nextId, last, prev, abs, born>>
  /\ emitted' = Silent

ClearAllTasks(p) ==
  /\ CanStart(p)
  /\ call' = [call EXCEPT ![p] = Begin("clearAllTasks", "x_remove")]
  /\ nOps' = nOps + 1
  /\ UNCHANGED <<storage, listeners, now, nextId, last, prev, abs, born>>
  /\ emitted' = Silent

ClearAll(p) ==
  /\ CanStart(p)
  /\ call' = [call EXCEPT ![p] = Begin("clearAll", "x_remove")]
  /\ nOps' = nOps + 1
  /\ UNCHANGED <<storage, listeners, now, nextId, last, prev, abs, born>>
  /\ emitted' = Silent

GetAllTasks(p) ==
  /\ CanStart(p)
  /\ call' = [call EXCEPT ![p] = Begin("getAll", "g_read")]
  /\ nOps' = nOps + 1
  /\ UNCHANGED <<storage, listeners, now, nextId, last, prev, abs, born>>
  /\ emitted' = Silent

\* ---- steps of a call ---------------------------------------------------
\* variant: the tasks stored by others in the meantime are kept
SaveMerged(tasks) ==
  LET Missing(t) == t.id \notin IdsOf(tasks)
  IN  [present |-> TRUE, wellFormed |-> TRUE,
       doc |-> Stringify(tasks \o SelectSeq(ReadTasks(storage), Missing))]

\* the document setItem stores for saveTasks(tasks)
SaveTasks(tasks) == [present |-> TRUE, wellFormed |-> TRUE, doc |-> Stringify(tasks)]

Faulted(c, ok) == IF ok THEN c.fault ELSE "read"

\* variant: catch (error) { throw error }
CaughtRethrown(where) == [threw |-> TRUE, tasks |-> <<>>]

\* the catch block of getAllTasks: console.error(...); return []
Caught(where) == [threw |-> FALSE, tasks |-> <<>>]

\* how `await this.getAllTasks()` ends for its caller: getItem rejects
\* (ok = FALSE), or JSON.parse / the map throws, or the tasks are returned
GetAll(ok) ==
  IF ~ok THEN Caught("getItem")
  ELSE IF storage.present /\ ~storage.wellFormed THEN Caught("parse")
  ELSE [threw |-> FALSE, tasks |-> ReadTasks(storage)]

\* an exception of getAllTasks would leave the calling operation at once
Thrown(p, ok) ==
  /\ call' = [call EXCEPT ![p] = IdleCall]
  /\ last' = Result([call[p] EXCEPT !.fault = Faulted(call[p], ok)], "throw", <<>>)
  /\ prev' = Older(last)
  /\ UNCHANGED <<storage, listeners, now, nextId, nOps, abs, born>>
  /\ emitted' = Silent

\* createTask: the read resolves, the new task is pushed
CreateRead(p, ok) ==
  /\ call[p].pc = "c_read"
  /\ IF GetAll(ok).threw THEN Thrown(p, ok)
     ELSE /\ call' = [call EXCEPT ![p].tasks = Push(GetAll(ok).tasks, call[p].task),
                                  ![p].fault = Faulted(call[p], ok),
                                  ![p].pc = "c_write"]
          /\ UNCHANGED <<storage, listeners, now, nextId, nOps, last, prev, abs, born>>
          /\ emitted' = Silent

\* createTask: the write resolves, listeners are called, the task returned
CreateWrite(p) ==
  /\ call[p].pc = "c_write"
  /\ storage' = SaveTasks(call[p].tasks)
  /\ call' = [Staled(p) EXCEPT ![p] = IdleCall]
  /\ \E order \in Orders(listeners) :
       /\ last' = Result(call[p], Returns(EmitChange(order), "task"), <<>>)
       /\ emitted' = Emit(call[p], EmitChange(order))
  /\ prev' = Older(last)
  /\ abs' = Replay(abs, call[p], call[p].task.createdAt)
  /\ UNCHANGED <<listeners, now, nextId, nOps, born>>

\* updateTask: the read resolves; not found returns null, otherwise the
\* merged task replaces the element and the write is issued
UpdateRead(p, ok) ==
  /\ call[p].pc = "u_read"
  /\ LET tasks == GetAll(ok).tasks
         taskIndex == FindIndex(tasks, call[p].id)
     IN  IF GetAll(ok).threw THEN Thrown(p, ok)
         ELSE IF taskIndex = 0
         THEN /\ call' = [call EXCEPT ![p] = IdleCall]
              /\ last' = Result([call[p] EXCEPT !.fault = Faulted(call[p], ok)],
                                "null", <<>>)
              /\ prev' = Older(last)
              /\ abs' = Replay(abs, call[p], now)
              /\ now' = now
         ELSE \E t \in Clock :
                /\ now' = t
                /\ call' = [call EXCEPT
                     ![p].old = tasks[taskIndex],
                     ![p].task = MergeUpdate(tasks[taskIndex], call[p].updates, t),
                     ![p].tasks = [tasks EXCEPT ![taskIndex] =
                                     MergeUpdate(tasks[taskIndex], call[p].updates, t)],
                     ![p].stale = {},
                     ![p].at = t,
                     ![p].pc = "u_write"]
                /\ UNCHANGED <<last, prev, abs>>
  /\ UNCHANGED <<storage, listeners, nextId, nOps, born>>
  /\ emitted' = Silent

\* updateTask: the write resolves.  For the edit sheet the returned task is
\* passed on at once: onTaskUpdated(updatedTask) -> useTasks.updateTask(
\* updatedTask.id, updatedTask) -> TaskService.updateTask
UpdateWrite(p) ==
  /\ call[p].pc = "u_write"
  /\ storage' = SaveTasks(call[p].tasks)
  /\ abs' = Replay(abs, call[p], call[p].task.updatedAt)
  /\ prev' = Older(last)
  /\ \E order \in Orders(listeners) :
       /\ last' = Result(call[p], Returns(EmitChange(order), "task"), <<>>)
       /\ emitted' = Emit(call[p], EmitChange(order))
       /\ IF call[p].kind = "edit" /\ ~EmitChange(order).threw
          THEN call' = [Staled(p) EXCEPT ![p] =
                          [IdleCall EXCEPT !.kind = "editvm",
                                           !.pc = "u_read",
                                           !.seq = -call[p].seq,
                                           !.id = call[p].task.id,
                                           !.updates = AsUpdates(call[p].task)]]
          ELSE call' = [Staled(p) EXCEPT ![p] = IdleCall]
  /\ UNCHANGED <<listeners, now, nextId, nOps, born>>

\* toggleTaskCompletion: its own read, then it delegates to updateTask
ToggleRead(p, ok) ==
  /\ call[p].pc = "t_read"
  /\ LET tasks == GetAll(ok).tasks
         idx == FindIndex(tasks, call[p].id)
     IN  IF GetAll(ok).threw THEN Thrown(p, ok)
         ELSE IF idx = 0
         THEN /\ call' = [call EXCEPT ![p] = IdleCall]
              /\ last' = Result([call[p] EXCEPT !.fault = Faulted(call[p], ok)],
                                "null", <<>>)
              /\ prev' = Older(last)
              /\ abs' = Replay(abs, call[p], now)
         ELSE /\ call' = [call EXCEPT
                            ![p].updates = ToggleUpdates(tasks[idx]),
                            ![p].pc = "u_read"]
              /\ UNCHANGED <<last, prev, abs>>
  /\ UNCHANGED <<storage, listeners, now, nextId, nOps, born>>
  /\ emitted' = Silent

\* variant: await this.saveTasks(tasks)
ToSaveUnfiltered(tasks, filteredTasks) == tasks

\* deleteTask: await this.saveTasks(filteredTasks)
ToSave(tasks, filteredTasks) == filteredTasks

DeleteRead(p, ok) ==
  /\ call[p].pc = "d_read"
  /\ LET tasks == GetAll(ok).tasks
         filteredTasks == FilterOut(tasks, call[p].id)
     IN  IF GetAll(ok).threw THEN Thrown(p, ok)
         ELSE IF Len(filteredTasks) = Len(tasks)
         THEN /\ call' = [call EXCEPT ![p] = IdleCall]
              /\ last' = Result([call[p] EXCEPT !.fault = Faulted(call[p], ok)],
                                "false", <<>>)
              /\ prev' = Older(last)
              /\ abs' = Replay(abs, call[p], now)
         ELSE /\ call' = [call EXCEPT ![p].tasks = ToSave(tasks, filteredTasks),
                                      ![p].old = tasks[FindIndex(tasks, call[p].id)],
                                      ![p].pc = "d_write"]
              /\ UNCHANGED <<last, prev, abs>>
  /\ UNCHANGED <<storage, listeners, now, nextId, nOps, born>>
  /\ emitted' = Silent

DeleteWrite(p) ==
  /\ call[p].pc = "d_write"
  /\ storage' = SaveTasks(call[p].tasks)
  /\ call' = [Staled(p) EXCEPT ![p] = IdleCall]
  /\ \E order \in Orders(listeners) :
       /\ last' = Result(call[p], Returns(EmitChange(order), "true"), <<>>)
       /\ emitted' = Emit(call[p], EmitChange(order))
  /\ prev' = Older(last)
  /\ abs' = Replay(abs, call[p], now)
  /\ UNCHANGED <<listeners, now, nextId, nOps, born>>

\* variant: removeItem of a key that is not stored rejects
RejectsMissing(st) == ~st.present

\* AsyncStorage.removeItem(TASKS_STORAGE_KEY) with the storage working:
\* whether the request is rejected
RemoveRejects(st) == FALSE

\* clearAllTasks / clearAll: removeItem, then emitChange
RemoveItem(p) ==
  /\ call[p].pc = "x_remove"
  /\ prev' = Older(last)
  /\ abs' = Replay(abs, call[p], now)
  /\ IF RemoveRejects(storage)
     THEN /\ storage' = storage
          /\ call' = [call EXCEPT ![p] = IdleCall]
          /\ last' = Result(call[p], "throw", <<>>)
          /\ emitted' = Silent
     ELSE /\ storage' = NoDoc
          /\ call' = [Staled(p) EXCEPT ![p] = IdleCall]
          /\ \E order \in Orders(listeners) :
               /\ last' = Result(call[p], Returns(EmitChange(order), "void"), <<>>)
               /\ emitted' = Emit(call[p], EmitChange(order))
  /\ UNCHANGED <<listeners, now, nextId, nOps, born>>

GetRead(p, ok) ==
  /\ call[p].pc = "g_read"
  /\ IF GetAll(ok).threw THEN Thrown(p, ok)
     ELSE /\ call' = [call EXCEPT ![p] = IdleCall]
          /\ last' = Result([call[p] EXCEPT !.fault = Faulted(call[p], ok)],
                            "tasks", GetAll(ok).tasks)
          /\ prev' = Older(last)
          /\ UNCHANGED <<storage, listeners, now, nextId, nOps, abs, born>>
          /\ emitted' = Silent

\* ---- rejected storage requests -----------------------------------------
\* variant: emitChange() is called before the write is awaited
NotifiedBeforeWrite(order) == EmitChange(order)

\* saveTasks / clearAllTasks / clearAll when the awaited request rejects:
\* the emitChange() after the await is skipped
SkippedEmit(order) == [calls |-> NoEmit, threw |-> FALSE]

\* the catch block: console.error(...); throw
CatchThrows(normal) == "throw"

\* the normal return value written in the code of each operation
NormalReturn(c) ==
  CASE c.pc = "c_write" -> "task"
    [] c.pc = "u_write" -> "task"
    [] c.pc = "d_write" -> "true"
    [] OTHER -> "void"

\* setItem rejects in saveTasks: nothing is stored, the error goes up through
\* createTask / updateTask / toggleTaskCompletion / deleteTask to the caller
SetItemFails(p) ==
  /\ call[p].pc \in {"c_write", "u_write", "d_write"}
  /\ call' = [call EXCEPT ![p] = IdleCall]
  /\ \E order \in Orders(listeners) :
       /\ last' = Result([call[p] EXCEPT !.fault = "write"],
                         CatchThrows(NormalReturn(call[p])), <<>>)
       /\ emitted' = Emit(call[p], SkippedEmit(order))
  /\ prev' = Older(last)
  /\ UNCHANGED <<storage, listeners, now, nextId, nOps, abs, born>>

\* removeItem rejects in clearAllTasks / clearAll
RemoveItemFails(p) ==
  /\ call[p].pc = "x_remove"
  /\ call' = [call EXCEPT ![p] = IdleCall]
  /\ \E order \in Orders(listeners) :
       /\ last' = Result([call[p] EXCEPT !.fault = "write"],
                         CatchThrows(NormalReturn(call[p])), <<>>)
       /\ emitted' = Emit(call[p], SkippedEmit(order))
  /\ prev' = Older(last)
  /\ UNCHANGED <<storage, listeners, now, nextId, nOps, abs, born>>

\* ---- environment -------------------------------------------------------
Subscribe(l) ==
  /\ l \notin listeners
  /\ listeners' = listeners \cup {l}
  /\ UNCHANGED <<storage, call, now, nextId, nOps, last, prev, abs, born>>
  /\ emitted' = Silent

\* the function returned by subscribe
Unsubscribe(l) ==
  /\ l \in listeners
  /\ listeners' = listeners \ {l}
  /\ UNCHANGED <<storage, call, now, nextId, nOps, last, prev, abs, born>>
  /\ emitted' = Silent

StartOps ==
  \E p \in Procs :
    \/ \E input \in CreateInputs : CreateTask(p, input)
    \/ \E i \in Ids, u \in UpdateInputs : UpdateTask(p, i, u)
    \/ \E i \in Ids, u \in EditInputs : EditSubmit(p, i, u)
    \/ \E i \in Ids : ToggleTaskCompletion(p, i)
    \/ \E i \in Ids : DeleteTask(p, i)
    \/ ClearAllTasks(p)
    \/ ClearAll(p)
    \/ GetAllTasks(p)

StepOps ==
  \E p \in Procs :
    \/ CreateRead(p, TRUE)
    \/ CreateWrite(p)
    \/ UpdateRead(p, TRUE)
    \/ UpdateWrite(p)
    \/ ToggleRead(p, TRUE)
    \/ DeleteRead(p, TRUE)
    \/ DeleteWrite(p)
    \/ RemoveItem(p)
    \/ GetRead(p, TRUE)

\* a storage request of a call in flight is rejected
FailOps ==
  \E p \in Procs :
    \/ CreateRead(p, FALSE)
    \/ UpdateRead(p, FALSE)
    \/ ToggleRead(p, FALSE)
    \/ DeleteRead(p, FALSE)
    \/ GetRead(p, FALSE)
    \/ SetItemFails(p)
    \/ RemoveItemFails(p)

\* the listeners of callers other than useTasks
Plain == {"L1", "L2"}

Env ==
  \/ \E l \in Plain : Subscribe(l)
  \/ \E l \in Plain : Unsubscribe(l)

\* calls may overlap at their awaits
Next ==
  /\ (nOps < MaxConc /\ StartOps) \/ StepOps \/ Env
  /\ UNCHANGED <<vm, checked, tagReg, sheet>>

Spec == Init /\ [][Next]_vars

\* each call completes before the next one starts
NextSeq ==
  /\ (Quiet /\ StartOps) \/ StepOps \/ Env
  /\ UNCHANGED <<vm, checked, tagReg, sheet>>

SpecSeq == InitEmpty /\ [][NextSeq]_vars

\* a launch that finds a document it cannot parse under the key
Unparsable == [present |-> TRUE, wellFormed |-> FALSE, doc |-> <<>>]

InitCorrupt ==
  /\ NoViewModel
  /\ storage = Unparsable
  /\ listeners = {}
  /\ call = [p \in Procs |-> IdleCall]
  /\ now = 0
  /\ nextId = 1
  /\ nOps = 0
  /\ last = NoCall
  /\ prev = NoPrev
  /\ emitted = Silent
  /\ abs = <<>>
  /\ born = [i \in Ids |-> -1]

\* calls run one after the other, any storage request may be rejected
NextFail ==
  /\ (Quiet /\ nOps < MaxFailOps /\ StartOps) \/ StepOps \/ FailOps \/ Env
  /\ UNCHANGED <<vm, checked, tagReg, sheet>>

SpecFail == (InitEmpty \/ InitSaved \/ InitCorrupt) /\ [][NextFail]_vars

\* ---- useTasks: the operations -------------------------------------------
\* A storage request and the code that runs when it resolves form one step
\* (see the head of the module); the code of useTasks that awaits a store
\* call runs in the same turn as the end of that call, so it belongs to the
\* step that completes the call.  The listener of an instance is called
\* inside emitChange, before the call returns.

\* the instance whose updateTask the edit sheet is handed (RootNavigator)
RootVM == "V1"

\* what a rejected storage request is rejected with
Rejections == {"Error", "other"}

\* err instanceof Error ? err.message : fallback
ErrorMessage(rej, fallback) == IF rej = "Error" THEN "storage error" ELSE fallback

Fallback(kind) ==
  CASE kind = "create" -> "Failed to add task"
    [] kind \in {"update", "editvm"} -> "Failed to update task"
    [] kind = "toggle" -> "Failed to toggle task"
    [] kind = "delete" -> "Failed to delete task"
    [] OTHER -> "Failed to clear tasks"

\* variant: the listener does nothing
OnChangeIgnored(v) == v

\* the subscribed listener: loadTasks() up to its await
OnChange(v) == [v EXCEPT !.loading = TRUE, !.error = Null, !.loads = @ + 1]

\* variant: the catch block only logs
CatchLogs(v, message) == v

\* catch (err) { setError(...) }
CatchSetsError(v, message) == [v EXCEPT !.error = message]

\* prevTasks.map(task => task.id === id ? updatedTask : task)
MapReplace(tasks, id, updatedTask) ==
  [i \in 1..Len(tasks) |-> IF tasks[i].id = id THEN updatedTask ELSE tasks[i]]

\* the rest of addTask / updateTask / toggleTask / deleteTask / clearAllTasks
\* after its store call r has ended
Continue(v, r, rej) ==
  CASE r.ret = "throw" -> CatchSetsError(v, ErrorMessage(rej, Fallback(r.kind)))
    [] r.kind = "create" /\ r.ret = "task" ->
         [v EXCEPT !.tasks = <<r.task>> \o @]
    [] r.kind \in {"update", "toggle", "editvm"} /\ r.ret = "task" ->
         [v EXCEPT !.tasks = MapReplace(@, r.id, r.task)]
    [] r.kind = "delete" /\ r.ret = "true" ->
         [v EXCEPT !.tasks = FilterOut(@, r.id)]
    [] r.kind = "clearAllTasks" /\ r.ret = "void" ->
         [v EXCEPT !.tasks = <<>>]
    [] OTHER -> v

\* the state of instance v after a step of the store: its listener, if
\* emitChange called it; the rest of its operation, if the call that ended
\* is one it awaits; its updateTask, if the edit sheet hands it the task
AfterStore(v, rej) ==
  LET ended    == last' # last
      notified == IF emitted'.calls[v] = 1 THEN OnChange(vm[v]) ELSE vm[v]
      resumed  == IF ended /\ last'.seq \in vm[v].awaits
                  THEN [Continue(notified, last', rej) EXCEPT
                          !.awaits = @ \ {last'.seq}]
                  ELSE notified
  IN  IF ended /\ last'.kind = "edit" /\ last'.ret = "task"
           /\ v = RootVM /\ vm[v].mounted
      THEN [resumed EXCEPT !.error = Null, !.awaits = @ \cup {-last'.seq}]
      ELSE resumed

\* mount: the two effects run, loadTasks() is called and the listener subscribed
Mount(v) ==
  /\ ~vm[v].mounted
  /\ vm' = [vm EXCEPT ![v] = [Unmounted EXCEPT !.mounted = TRUE, !.loads = 1]]
  /\ listeners' = listeners \cup {v}
  /\ emitted' = Silent
  /\ UNCHANGED <<storage, call, now, nextId, nOps, last, prev, abs, born, checked>>

\* variant: the loaded tasks are put in front of the mirror
SetMerged(prevTasks, loadedTasks) == loadedTasks \o prevTasks

\* setTasks(loadedTasks)
SetTasks(prevTasks, loadedTasks) == loadedTasks

\* variant: loadTasks without its finally block
FinallySkipped(v) == v

\* finally { setLoading(false) }
Finally(v) == [v EXCEPT !.loading = FALSE]

\* loadTasks: the awaited getAllTasks ends, then setTasks and the finally
LoadTasks(v, ok) ==
  /\ vm[v].mounted /\ vm[v].loads > 0
  /\ vm' = [vm EXCEPT ![v] =
       [Finally(IF GetAll(ok).threw
                THEN [vm[v] EXCEPT !.error = "Failed to load tasks"]
                ELSE [vm[v] EXCEPT !.tasks = SetTasks(@, GetAll(ok).tasks)])
        EXCEPT !.loads = @ - 1]]
  /\ emitted' = Silent
  /\ UNCHANGED <<storage, listeners, call, now, nextId, nOps, last, prev, abs, born,
                 checked>>

\* an operation of the instance is about to await store call number nOps + 1
Awaiting(v) == [vm EXCEPT ![v].error = Null, ![v].awaits = @ \cup {nOps + 1}]

\* inputs of addTask: the valid ones and one with a blank title
AddInputs == CreateInputs \cup {[title |-> <<" ">>, description |-> Undef]}

\* variant: the result of the validation is not looked at
RejectedNever(validationErrors) == FALSE

\* if (validationErrors.length > 0)
Rejected(validationErrors) == Len(validationErrors) > 0

\* addTask: validation, then createTask
AddTask(p, v, input) ==
  /\ vm[v].mounted
  /\ checked' = [called |-> TRUE, input |-> input, errors |-> ValidateTaskInput(input)]
  /\ IF Rejected(ValidateTaskInput(input))
     THEN /\ CanStart(p)
          /\ vm' = [vm EXCEPT ![v].error = ValidateTaskInput(input)[1]]
          /\ nOps' = nOps + 1
          /\ emitted' = Silent
          /\ UNCHANGED <<storage, listeners, call, now, nextId, last, prev, abs, born>>
     ELSE /\ CreateTask(p, input)
          /\ vm' = Awaiting(v)

VmUpdateTask(p, v, taskId, updates) ==
  /\ vm[v].mounted
  /\ UpdateTask(p, taskId, updates)
  /\ vm' = Awaiting(v)
  /\ UNCHANGED checked

ToggleTask(p, v, taskId) ==
  /\ vm[v].mounted
  /\ ToggleTaskCompletion(p, taskId)
  /\ vm' = Awaiting(v)
  /\ UNCHANGED checked

VmDeleteTask(p, v, taskId) ==
  /\ vm[v].mounted
  /\ DeleteTask(p, taskId)
  /\ vm' = Awaiting(v)
  /\ UNCHANGED checked

VmClearAllTasks(p, v) ==
  /\ vm[v].mounted
  /\ ClearAllTasks(p)
  /\ vm' = Awaiting(v)
  /\ UNCHANGED checked

\* SettingsBottomSheet.performClearData: TaskService.clearAll()
PerformClearData(p) ==
  /\ ClearAll(p)
  /\ UNCHANGED <<vm, checked>>

\* EditTaskBottomSheet.handleSubmit, the sheet being shown under RootNavigator
HandleSubmit(p, taskId, updates) ==
  /\ vm[RootVM].mounted
  /\ EditSubmit(p, taskId, updates)
  /\ UNCHANGED <<vm, checked>>

StartVM ==
  \E p \in Procs :
    \/ \E v \in VMs, input \in AddInputs : AddTask(p, v, input)
    \/ \E v \in VMs, i \in Ids, u \in UpdateInputs : VmUpdateTask(p, v, i, u)
    \/ \E v \in VMs, i \in Ids : ToggleTask(p, v, i)
    \/ \E v \in VMs, i \in Ids : VmDeleteTask(p, v, i)
    \/ \E v \in VMs : VmClearAllTasks(p, v)
    \/ PerformClearData(p)
    \/ \E i \in Ids, u \in EditInputs : HandleSubmit(p, i, u)

\* a step of a store call, with what it makes the instances do
StepVM ==
  /\ StepOps
  /\ \E rej \in Rejections : vm' = [v \in VMs |-> AfterStore(v, rej)]
  /\ UNCHANGED checked

\* a rejected request of a store call, with what it makes the instances do
FailVM ==
  /\ FailOps
  /\ \E rej \in Rejections : vm' = [v \in VMs |-> AfterStore(v, rej)]
  /\ UNCHANGED checked

\* the app has been launched: RootNavigator has mounted its instance, whose
\* first loadTasks is in flight
Launched ==
  /\ vm = [v \in VMs |->
             IF v = RootVM THEN [Unmounted EXCEPT !.mounted = TRUE, !.loads = 1]
             ELSE Unmounted]
  /\ listeners = {RootVM}
  /\ checked = NoCheck
  /\ tagReg = NoTagRegistry
  /\ sheet = NoSubmit
  /\ call = [p \in Procs |-> IdleCall]
  /\ now = 0
  /\ nOps = 0
  /\ last = NoCall
  /\ prev = NoPrev
  /\ emitted = Silent

\* on the first launch nothing is stored, on a later one a task is
InitVM ==
  /\ Launched
  /\ \/ storage = NoDoc /\ nextId = 1 /\ abs = <<>> /\ born = [i \in Ids |-> -1]
     \/ /\ storage = SaveTasks(<<SavedTask>>)
        /\ nextId = 2
        /\ abs = <<SavedTask>>
        /\ born = [i \in Ids |-> IF i = 1 THEN 0 ELSE -1]

\* the screens on a store that works
NextVM ==
  /\ \/ (nOps < MaxVmOps /\ StartVM)
     \/ StepVM
     \/ \E v \in VMs : Mount(v)
     \/ \E v \in VMs : LoadTasks(v, TRUE)
  /\ UNCHANGED <<tagReg, sheet>>

SpecVM == InitVM /\ [][NextVM]_vars

\* the screens on a store whose requests may be rejected
\* (only the instance of RootNavigator is mounted)
NextVMFail ==
  /\ \/ (Quiet /\ nOps < MaxVmFailOps /\ StartVM)
     \/ StepVM
     \/ FailVM
     \/ \E v \in VMs : LoadTasks(v, TRUE)
     \/ \E v \in VMs : LoadTasks(v, FALSE)
  /\ UNCHANGED <<tagReg, sheet>>

SpecVMFail == InitVM /\ [][NextVMFail]_vars

\* variant: the cleanup of the effect does not call unsubscribe
Forgotten(ls, l) == ls

\* the function subscribe returned: this.listeners.delete(listener)
Deleted(ls, l) == ls \ {l}

\* unmount: the cleanup of the subscribe effect runs; the state of the
\* instance is gone, and what its loads and operations in flight set later
\* is set on nothing
Unmount(v) ==
  /\ vm[v].mounted
  /\ vm' = [vm EXCEPT ![v] = Unmounted]
  /\ listeners' = Deleted(listeners, v)
  /\ emitted' = Silent
  /\ UNCHANGED <<storage, call, now, nextId, nOps, last, prev, abs, born, checked>>

\* screens come and go while the store works; operations start one at a time
NextLife ==
  /\ \/ (Quiet /\ nOps < MaxLifeOps /\ StartVM)
     \/ StepVM
     \/ \E v \in VMs : Mount(v)
     \/ \E v \in VMs : Unmount(v)
     \/ \E v \in VMs : LoadTasks(v, TRUE)
  /\ UNCHANGED <<tagReg, sheet>>

SpecLife == InitVM /\ [][NextLife]_vars

\* the screens on a store whose requests may be rejected, every request
\* being answered in the end
NextLoad ==
  /\ \/ (Quiet /\ nOps < MaxLoadOps /\ StartVM)
     \/ StepVM
     \/ FailVM
     \/ \E v \in VMs : Mount(v)
     \/ \E v \in VMs : LoadTasks(v, TRUE)
     \/ \E v \in VMs : LoadTasks(v, FALSE)
  /\ UNCHANGED <<tagReg, sheet>>

\* the getItem of a load of instance v is answered
LoadEnds(v) ==
  /\ LoadTasks(v, TRUE) \/ LoadTasks(v, FALSE)
  /\ UNCHANGED <<tagReg, sheet>>

\* AsyncStorage answers the getItem of every load
LoadsReturn == \A v \in VMs : WF_vars(LoadEnds(v))

SpecLoad == InitVM /\ [][NextLoad]_vars /\ LoadsReturn

\* ---- AddTaskBottomSheet.handleSubmit -------------------------------------
\* what the user has typed into the form
SheetForms ==
  { [title |-> <<" ">>, description |-> <<>>],
    [title |-> <<" ", "a">>, description |-> <<"d", " ">>],
    [title |-> Repeat("x", MaxTitleLength + 1), description |-> <<" ">>] }

\* the CreateTaskInput built from the form
NewTask(form) ==
  [title |-> Trim(form.title),
   description |-> IF Truthy(Trim(form.description)) THEN Trim(form.description)
                   ELSE Undef]

\* how the promise of onTaskAdded (useTasks.addTask) ends for a store call
\* that ended with ret: addTask catches what the store throws
OnTaskAdded(ret) == "resolved"

\* the alert after `await onTaskAdded(newTask)`: the success message, or the
\* one of the catch block
AlertAfter(outcome) ==
  IF outcome = "resolved" THEN "Task created successfully!"
  ELSE "Failed to create task"

\* handleSubmit up to the await inside addTask; with a blank title it ends
\* at once, and so does addTask when the validation turns the input down
SheetSubmit(p, form) ==
  /\ vm[RootVM].mounted
  /\ IF ~Truthy(Trim(form.title))
     THEN /\ sheet' = [NoSubmit EXCEPT !.alert = "Please enter a task title"]
          /\ sheet' # sheet
          /\ emitted' = Silent
          /\ UNCHANGED <<storage, listeners, call, now, nextId, nOps, last, prev, abs,
                         born, vm, checked>>
     ELSE /\ AddTask(p, RootVM, NewTask(form))
          /\ sheet' = IF Rejected(ValidateTaskInput(NewTask(form)))
                      THEN [input |-> NewTask(form), awaits |-> 0,
                            alert |-> AlertAfter(OnTaskAdded("none"))]
                      ELSE [input |-> NewTask(form), awaits |-> nOps + 1,
                            alert |-> "none"]

\* the sheet after a step of the store: when the createTask its addTask
\* awaits has ended, addTask ends and the alert is shown
SheetAfter ==
  IF last' # last /\ sheet.awaits # 0 /\ last'.seq = sheet.awaits
  THEN [sheet EXCEPT !.awaits = 0, !.alert = AlertAfter(OnTaskAdded(last'.ret))]
  ELSE sheet

\* tasks are added through the sheet, one at a time, on a store whose
\* requests may be rejected
NextSheet ==
  /\ \/ (Quiet /\ nOps < MaxSheetOps /\ \E p \in Procs, form \in SheetForms :
                                            SheetSubmit(p, form))
     \/ (StepVM /\ sheet' = SheetAfter)
     \/ (FailVM /\ sheet' = SheetAfter)
     \/ (\E v \in VMs : LoadTasks(v, TRUE)) /\ UNCHANGED sheet
     \/ (\E v \in VMs : LoadTasks(v, FALSE)) /\ UNCHANGED sheet
  /\ UNCHANGED tagReg

SpecSheet == InitVM /\ [][NextSheet]_vars

\* ---- the derived values of one mounted instance -------------------------
ViewTitle(i) ==
  CASE i % 3 = 1 -> <<"A", "b">>
    [] i % 3 = 2 -> <<"c">>
    [] OTHER -> <<"b", " ", "c">>

ViewDescription(i) ==
  CASE i % 3 = 1 -> Undef
    [] i % 3 = 2 -> <<"x", " ", "a", "B">>
    [] OTHER -> <<>>

ViewTask(i, completed, createdAt) ==
  [id |-> i, title |-> ViewTitle(i), description |-> ViewDescription(i),
   completed |-> completed, createdAt |-> createdAt, updatedAt |-> createdAt]

\* the mirrors of up to MaxMirror tasks, in any order of creation
Mirrors ==
  UNION { { [i \in 1..n |-> ViewTask(i, c[i], t[i])] :
              c \in [1..n -> BOOLEAN], t \in [1..n -> 0..MaxTime] } :
          n \in 0..MaxMirror }

SearchQueries ==
  {Undef, <<>>, <<" ">>, <<"a", "B">>, <<" ", "A">>, <<"C">>}

Filters ==
  {[status |-> st, searchQuery |-> q] : st \in Statuses, q \in SearchQueries}

\* the instance "V1" is mounted and has loaded some collection
InitView ==
  /\ \E m \in Mirrors :
       vm = [v \in VMs |->
               IF v = "V1"
               THEN [Unmounted EXCEPT !.mounted = TRUE, !.tasks = m, !.loading = FALSE]
               ELSE Unmounted]
  /\ checked = NoCheck
  /\ tagReg = NoTagRegistry
  /\ sheet = NoSubmit
  /\ storage = NoDoc
  /\ listeners = {"V1"}
  /\ call = [p \in Procs |-> IdleCall]
  /\ now = 0
  /\ nextId = 1
  /\ nOps = 0
  /\ last = NoCall
  /\ prev = NoPrev
  /\ emitted = Silent
  /\ abs = <<>>
  /\ born = [i \in Ids |-> -1]

\* setFilter: setFilter(newFilter)
SetFilter(v, newFilter) ==
  /\ vm[v].mounted
  /\ vm' = [vm EXCEPT ![v].filter = newFilter]
  /\ UNCHANGED <<storeVars, checked>>

\* setSearchQuery: setFilter(prevFilter => ({ ...prevFilter, searchQuery: query }))
SetSearchQuery(v, query) ==
  /\ vm[v].mounted
  /\ vm' = [vm EXCEPT ![v].filter = [@ EXCEPT !.searchQuery = query]]
  /\ UNCHANGED <<storeVars, checked>>

NextView ==
  /\ \E v \in VMs :
       \/ \E f \in Filters : SetFilter(v, f)
       \/ \E q \in SearchQueries \ {Undef} : SetSearchQuery(v, q)
  /\ UNCHANGED <<tagReg, sheet>>

SpecView == InitView /\ [][NextView]_vars

\* ---- validateTaskInput called on its own --------------------------------
ValidateInput(input) ==
  /\ checked' = [called |-> TRUE, input |-> input, errors |-> ValidateTaskInput(input)]
  /\ UNCHANGED <<storeVars, vm, tagReg, sheet>>

NextValidate == \E input \in ValidateInputs : ValidateInput(input)

SpecValidate == InitSaved /\ [][NextValidate]_vars

\* ---- TagService.createOrGetTag -------------------------------------------
\* generateId (utils, source not available): an id not handed out before
GenerateTagId == tagReg.issued + 1

\* the call up to its first await: normalizedName is computed, getAllTags called
CreateOrGetTag(p, name) ==
  /\ tagReg.call[p].pc = "idle"
  /\ tagReg.nCalls < MaxTagCalls
  /\ tagReg' = [tagReg EXCEPT
       !.call[p] = [IdleTagCall EXCEPT !.pc = "read", !.seq = tagReg.nCalls + 1,
                                       !.name = name],
       !.nCalls = @ + 1]

\* getAllTags resolves: the existing tag is returned, or the new tag is
\* built and saveTags called
TagRead(p) ==
  /\ tagReg.call[p].pc = "read"
  /\ LET c == tagReg.call[p]
         normalizedName == ToLowerCase(Trim(c.name))
         existingTags == ReadTags(tagReg.storage)
         found == FindTag(existingTags, normalizedName)
         newTag == [id |-> GenerateTagId, name |-> Trim(c.name),
                    color |-> GetNextColor(existingTags)]
     IN  IF found # 0
         THEN tagReg' = [tagReg EXCEPT
                !.call[p] = IdleTagCall,
                !.last = [seq |-> c.seq, name |-> c.name,
                          tag |-> existingTags[found], wrote |-> FALSE]]
         ELSE tagReg' = [tagReg EXCEPT
                !.call[p] = [c EXCEPT !.pc = "write", !.tag = newTag,
                                      !.tags = Append(existingTags, newTag)],
                !.issued = @ + 1]

\* saveTags resolves: the new tag is returned
TagWrite(p) ==
  /\ tagReg.call[p].pc = "write"
  /\ LET c == tagReg.call[p]
     IN  tagReg' = [tagReg EXCEPT
           !.storage = [present |-> TRUE, doc |-> StringifyTags(c.tags)],
           !.call[p] = IdleTagCall,
           !.last = [seq |-> c.seq, name |-> c.name, tag |-> c.tag, wrote |-> TRUE]]

\* the tag pickers ask for tags; the calls may overlap at their awaits
NextTags ==
  /\ \E p \in Procs :
       \/ \E name \in TagNames : CreateOrGetTag(p, name)
       \/ TagRead(p)
       \/ TagWrite(p)
  /\ UNCHANGED <<storeVars, vm, checked, sheet>>

SpecTags == InitEmpty /\ [][NextTags]_vars

\* ---- properties ---------------------------------------------------------
Stored == ReadTasks(storage)

Saving(c) == c.ret \in {"task", "true"}

\* C1: with calls run one after the other, the stored collection, and what
\* getAllTasks returns, is the replay of the completed calls on a list that
\* starts empty; no task is stored twice.
C1_SequentialReplay ==
  /\ Stored = abs
  /\ last.kind = "getAll" => last.tasks = abs
  /\ \A i, j \in 1..Len(Stored) : Stored[i].id = Stored[j].id => i = j

\* two tasks created, the first one deleted, then the collection read
C1_Witness ==
  /\ last.kind = "getAll" /\ last.ret = "tasks"
  /\ Len(last.tasks) = 1
  /\ last.tasks[1].id = 2

\* C2: two calls read the same document, then both write: the later write
\* replaces the whole document, the change of the earlier writer is gone
\* (a created task is missing, a deleted task is back, an updated task has
\* its old fields), and both calls have returned their normal result.
C2_LostUpdate ==
  ( /\ Saving(last) /\ Saving(prev)
    /\ last.stale = {prev.seq} /\ prev.stale = {}
    /\ last.id # prev.id )
  => /\ prev.kind = "create" => prev.id \notin IdsOf(Stored)
     /\ prev.kind = "delete" => prev.id \in IdsOf(Stored)
     /\ (prev.kind \in {"update", "toggle", "edit", "editvm"}
           /\ prev.task # prev.old)
          => /\ \E i \in 1..Len(Stored) : Stored[i] = prev.old
             /\ \A i \in 1..Len(Stored) : Stored[i] # prev.task
     /\ last.kind = "create" => \E i \in 1..Len(Stored) : Stored[i] = last.task

\* two overlapping createTask calls have both returned a task, one is stored
C2_Witness ==
  /\ last.kind = "create" /\ last.ret = "task"
  /\ prev.kind = "create" /\ prev.ret = "task"
  /\ last.stale = {prev.seq} /\ prev.stale = {}
  /\ IdsOf(Stored) = {last.id}

\* C3: createTask run alone appends exactly one task and leaves the earlier
\* ones unchanged; the new task has the input's title, completed = false,
\* createdAt equal to updatedAt and an id no stored task has; it is returned.
C3_CreateAppends ==
  [][\A p \in Procs :
       (call[p].pc = "c_write" /\ call'[p].pc = "idle") =>
         /\ ReadTasks(storage') = Append(Stored, last'.task)
         /\ last'.ret = "task"
         /\ last'.task.title = call[p].updates.title
         /\ last'.task.completed = FALSE
         /\ last'.task.createdAt = last'.task.updatedAt
         /\ last'.task.id \notin IdsOf(Stored)]_vars

\* C4: no two stored tasks have the same id, also when calls overlap.
C4_UniqueIds ==
  \A i, j \in 1..Len(Stored) : Stored[i].id = Stored[j].id => i = j

\* two tasks are stored after a write that followed another call's write
C4_Witness ==
  /\ Len(Stored) = 2
  /\ Saving(last) /\ last.stale # {}

\* C5: deleteTask of a stored id, run alone, goes on to write, returns true,
\* stores the collection without that task (the others unchanged, in order)
\* and calls every subscribed listener once.
C5_DeleteExisting ==
  [][\A p \in Procs :
       /\ (call[p].pc = "d_read" /\ call'[p].pc # "d_read"
             /\ call[p].id \in IdsOf(Stored))
          => call'[p].pc = "d_write"
       /\ (call[p].pc = "d_write" /\ call'[p].pc # "d_write")
          => LET i == CHOOSE k \in 1..Len(Stored) : Stored[k].id = call[p].id
             IN  /\ call[p].id \in IdsOf(Stored)
                 /\ ReadTasks(storage') =
                      SubSeq(Stored, 1, i - 1) \o SubSeq(Stored, i + 1, Len(Stored))
                 /\ last'.seq = call[p].seq /\ last'.ret = "true"
                 /\ emitted'.seq = call[p].seq
                 /\ \A l \in Listeners :
                      emitted'.calls[l] = IF l \in listeners THEN 1 ELSE 0]_vars

\* deleteTask has just removed the first of two tasks and called a listener
C5_Witness ==
  /\ last.kind = "delete" /\ last.ret = "true" /\ last.id = 1
  /\ IdsOf(Stored) = {2}
  /\ emitted.seq = last.seq /\ \E l \in Listeners : emitted.calls[l] = 1

\* C6: for an id that is not stored, updateTask and toggleTaskCompletion
\* return null and deleteTask returns false; the step writes nothing and
\* calls no listener.
C6_NotFound ==
  [][\A p \in Procs :
       (call[p].pc \in {"u_read", "t_read", "d_read"} /\ call'[p].pc # call[p].pc
          /\ call[p].id \notin IdsOf(Stored))
       => /\ call'[p].pc = "idle"
          /\ last'.seq = call[p].seq
          /\ last'.ret = IF call[p].pc = "d_read" THEN "false" ELSE "null"
          /\ storage' = storage
          /\ emitted' = Silent]_vars

\* toggleTaskCompletion, then deleteTask, of a missing id, with a task stored
C6_Witness ==
  /\ prev.kind = "toggle" /\ prev.ret = "null"
  /\ last.kind = "delete" /\ last.ret = "false"
  /\ Stored # <<>>

TwoToggles ==
  /\ prev.kind = "toggle" /\ prev.ret = "task"
  /\ last.kind = "toggle" /\ last.ret = "task"
  /\ prev.id = last.id

\* C7 as stated: two toggles in a row restore completed, and updatedAt
\* grows strictly at each of them.
C7_StrictlyIncreasing ==
  TwoToggles =>
    /\ last.task.completed = prev.old.completed
    /\ prev.task.updatedAt > prev.old.updatedAt
    /\ last.task.updatedAt > prev.task.updatedAt

\* C7: two toggles in a row restore completed; each sets updatedAt to the
\* reading of the clock it took, which is not below the previous value.
C7_ToggleTwice ==
  TwoToggles =>
    /\ prev.task.completed # prev.old.completed
    /\ last.task.completed = prev.old.completed
    /\ last.old = prev.task
    /\ prev.task.updatedAt = prev.at /\ last.task.updatedAt = last.at
    /\ prev.old.updatedAt <= prev.at /\ prev.at <= last.at

\* the first toggle fell in the millisecond of the creation, the second later
C7_Witness ==
  /\ TwoToggles
  /\ prev.task.updatedAt = prev.old.updatedAt
  /\ last.task.updatedAt > prev.task.updatedAt

UpdateKinds == {"update", "toggle", "edit", "editvm"}

\* C8: a stored task has the createdAt createTask gave to its id; an update
\* (also one whose updates argument is a whole Task) returns a task with
\* the id and createdAt unchanged and updatedAt set to the clock reading of
\* that update.
C8_IdAndCreatedAtKept ==
  /\ \A i \in 1..Len(Stored) :
       Stored[i].id \in Ids /\ Stored[i].createdAt = born[Stored[i].id]
  /\ (last.kind \in UpdateKinds /\ last.ret = "task")
       => /\ last.task.id = last.id /\ last.task.id = last.old.id
          /\ last.task.createdAt = born[last.id]
          /\ last.task.createdAt = last.old.createdAt
          /\ last.task.updatedAt = last.at

\* the view model has passed the edited task on as updates, a millisecond
\* or more after the edit sheet's own update
C8_Witness ==
  /\ last.kind = "editvm" /\ last.ret = "task"
  /\ "createdAt" \in DOMAIN last.updates /\ "id" \in DOMAIN last.updates
  /\ last.task.updatedAt > last.updates.updatedAt

\* C9 as stated: updateTask run alone changes only the task with that id,
\* every field named in updates takes the given value, the others (except
\* updatedAt) keep theirs, and the returned task is the stored one.
C9_EveryNamedField ==
  [][\A p \in Procs :
       (call[p].pc = "u_write" /\ call'[p].pc # "u_write") =>
         LET after == ReadTasks(storage')
             i == CHOOSE k \in 1..Len(Stored) : Stored[k].id = call[p].id
         IN  /\ Len(after) = Len(Stored)
             /\ \A j \in 1..Len(Stored) : j # i => after[j] = Stored[j]
             /\ \A k \in DOMAIN call[p].updates : after[i][k] = call[p].updates[k]
             /\ \A k \in DOMAIN Stored[i] \ (DOMAIN call[p].updates \cup {"updatedAt"}) :
                  after[i][k] = Stored[i][k]
             /\ last'.ret = "task" /\ last'.task = after[i]]_vars

\* C9: updateTask of a stored id, run alone, goes on to write and changes
\* only the task with that id, in place: every field named in updates other
\* than updatedAt takes the given value, updatedAt is the clock reading of
\* the call, the other fields keep theirs; the returned task is the stored one.
C9_UpdateInPlace ==
  [][\A p \in Procs :
       /\ (call[p].pc = "u_read" /\ call'[p].pc # "u_read"
             /\ call[p].id \in IdsOf(Stored))
          => call'[p].pc = "u_write"
       /\ (call[p].pc = "u_write" /\ call'[p].pc # "u_write") =>
            LET after == ReadTasks(storage')
                i == CHOOSE k \in 1..Len(Stored) : Stored[k].id = call[p].id
            IN  /\ call[p].id \in IdsOf(Stored)
                /\ Len(after) = Len(Stored)
                /\ \A j \in 1..Len(Stored) : j # i => after[j] = Stored[j]
                /\ \A k \in DOMAIN call[p].updates \ {"updatedAt"} :
                     after[i][k] = call[p].updates[k]
                /\ after[i].updatedAt = call[p].at
                /\ \A k \in DOMAIN Stored[i] \ (DOMAIN call[p].updates \cup {"updatedAt"}) :
                     after[i][k] = Stored[i][k]
                /\ last'.ret = "task" /\ last'.task = after[i]]_vars

\* the second of two stored tasks has been updated
C9_Witness ==
  /\ last.kind = "update" /\ last.ret = "task"
  /\ Len(Stored) = 2 /\ Stored[2] = last.task
  /\ last.task # last.old

Clears == {"clearAll", "clearAllTasks"}

\* C10: when clearAll or clearAllTasks has completed with no other call in
\* flight, nothing is stored, a getAllTasks that follows returns the empty
\* collection, and the clear has called every listener subscribed at that
\* moment once.
C10_ClearEmpties ==
  /\ [](last.kind \in Clears => Stored = <<>> /\ last.ret = "void")
  /\ []((prev.kind \in Clears /\ last.kind = "getAll") => last.tasks = <<>>)
  /\ [][\A p \in Procs :
          (call[p].pc = "x_remove" /\ call'[p].pc # "x_remove") =>
            /\ last'.kind \in Clears
            /\ emitted'.seq = call[p].seq
            /\ \A l \in Listeners :
                 emitted'.calls[l] = IF l \in listeners THEN 1 ELSE 0]_vars

\* clearAll has just emptied a non-empty store with both plain listeners subscribed
C10_Witness ==
  /\ last.kind = "clearAll" /\ prev.kind = "create"
  /\ listeners = Plain
  /\ emitted.seq = last.seq /\ \A l \in Plain : emitted.calls[l] = 1

WritePcs == {"c_write", "u_write", "d_write", "x_remove"}

\* C11: clearAll called when nothing is stored (as after a clearAll) returns
\* normally and leaves nothing stored, so that getAllTasks returns [].
C11_ClearAllIdempotent ==
  /\ [][\A p \in Procs :
          (call[p].kind = "clearAll" /\ call[p].pc = "x_remove"
             /\ call'[p].pc # "x_remove" /\ ~storage.present)
          => /\ last'.seq = call[p].seq /\ last'.ret = "void"
             /\ ~storage'.present
             /\ ReadTasks(storage') = <<>>]_vars
  /\ []((prev.kind = "clearAll" /\ last.kind = "clearAll")
          => (prev.ret = "void" /\ last.ret = "void" /\ Stored = <<>>))

\* clearAll has completed twice in a row
C11_Witness ==
  /\ prev.kind = "clearAll" /\ prev.ret = "void"
  /\ last.kind = "clearAll" /\ last.ret = "void"
  /\ ~storage.present

\* C12: the step that completes a write (createTask, updateTask,
\* toggleTaskCompletion, deleteTask of a stored id) or a clear calls every
\* listener subscribed at that moment once, also after one that throws, and
\* the call returns its normal result; no other step calls a listener.
C12_NotifiesAll ==
  [][/\ \A p \in Procs :
          (call[p].pc \in WritePcs /\ call'[p].pc # call[p].pc)
          => /\ emitted'.seq = call[p].seq
             /\ \A l \in Listeners :
                  emitted'.calls[l] = IF l \in listeners THEN 1 ELSE 0
             /\ last'.seq = call[p].seq
             /\ last'.ret = NormalReturn(call[p])
     /\ (\A p \in Procs : ~(call[p].pc \in WritePcs /\ call'[p].pc # call[p].pc))
          => emitted'.calls = NoEmit]_vars

\* a toggle has called both listeners, the throwing one among them
C12_Witness ==
  /\ last.kind = "toggle" /\ last.ret = "task"
  /\ listeners = Plain /\ Throwing \cap listeners # {}
  /\ listeners \ Throwing # {}
  /\ emitted.seq = last.seq /\ \A l \in Plain : emitted.calls[l] = 1

\* C13: when the write request of createTask, updateTask,
\* toggleTaskCompletion, deleteTask, clearAllTasks or clearAll is rejected,
\* the call throws, no listener is called and storage is left as it was.
C13_WriteFailure ==
  /\ [][\A p \in Procs :
          (call[p].pc \in WritePcs /\ call'[p].pc # call[p].pc
             /\ last'.seq = call[p].seq /\ last'.fault = "write")
          => /\ last'.ret = "throw"
             /\ call'[p].pc = "idle"
             /\ emitted'.calls = NoEmit
             /\ storage' = storage]_vars
  /\ [](last.fault = "write" => last.ret = "throw")

\* deleteTask of the stored task has thrown with a listener subscribed, the
\* task is still stored
C13_Witness ==
  /\ last.kind = "delete" /\ last.fault = "write" /\ last.ret = "throw"
  /\ last.id \in IdsOf(Stored)
  /\ listeners # {}
  /\ emitted.calls = NoEmit

\* C14: getAllTasks always returns a collection: the empty one when nothing
\* is stored under the key, when the read is rejected and when the document
\* cannot be parsed, the revived tasks otherwise; it writes nothing and calls
\* no listener.
C14_GetAllNeverFails ==
  [][\A p \in Procs :
       (call[p].pc = "g_read" /\ call'[p].pc # "g_read")
       => /\ last'.seq = call[p].seq /\ last'.ret = "tasks"
          /\ last'.tasks =
               IF ~storage.present \/ ~storage.wellFormed \/ last'.fault = "read"
               THEN <<>>
               ELSE [i \in 1..Len(storage.doc) |-> ReviveTask(storage.doc[i])]
          /\ storage' = storage
          /\ emitted' = Silent]_vars

\* the read was rejected while a task was stored
C14_Witness ==
  /\ last.kind = "getAll" /\ last.fault = "read" /\ last.ret = "tasks"
  /\ last.tasks = <<>>
  /\ Stored # <<>>

Mounted == {v \in VMs : vm[v].mounted}

\* a search string is in use when it is set and not blank
NonBlank(q) == q # Undef /\ \E k \in 1..Len(q) : ~IsSpace(q[k])

\* the example of three tasks: A incomplete at T1, B completed at T2 > T1,
\* C incomplete at T3 > T2, in the 'all' view without a search
ExampleABC(v) ==
  /\ Len(v.tasks) = 3
  /\ ~v.tasks[1].completed /\ v.tasks[2].completed /\ ~v.tasks[3].completed
  /\ v.tasks[1].createdAt < v.tasks[2].createdAt
  /\ v.tasks[2].createdAt < v.tasks[3].createdAt
  /\ v.filter.status = "all" /\ ~NonBlank(v.filter.searchQuery)

\* C16: for every mirror and every filter, filteredTasks has all incomplete
\* tasks before all completed ones and, within each group, createdAt
\* descending; for the mirror [A, B, C] of the example it is [C, A, B].
C16_ViewOrder ==
  \A v \in Mounted :
    LET f == SortedFilteredTasks(vm[v])
    IN  /\ \A i, j \in 1..Len(f) :
             i < j => /\ f[i].completed => f[j].completed
                      /\ f[i].completed = f[j].completed
                           => f[i].createdAt >= f[j].createdAt
        /\ ExampleABC(vm[v])
             => f = <<vm[v].tasks[3], vm[v].tasks[1], vm[v].tasks[2]>>

\* the example, after the search string was set to a blank
C16_Witness ==
  /\ ExampleABC(vm["V1"])
  /\ vm["V1"].filter.searchQuery = <<" ">>
  /\ SortedFilteredTasks(vm["V1"]) =
       <<vm["V1"].tasks[3], vm["V1"].tasks[1], vm["V1"].tasks[2]>>

ContainsIgnoringCase(str, q) ==
  \E i \in 1..(Len(str) - Len(q) + 1) :
    \A k \in 1..Len(q) : LowerOf(str[i + k - 1]) = LowerOf(q[k])

\* what the filter asks of a task
Wanted(task, filter) ==
  /\ filter.status = "active" => ~task.completed
  /\ filter.status = "completed" => task.completed
  /\ NonBlank(filter.searchQuery)
       => \/ ContainsIgnoringCase(task.title, filter.searchQuery)
          \/ /\ task.description # Undef
             /\ ContainsIgnoringCase(task.description, filter.searchQuery)

\* C17: for the status filters all, active and completed, filteredTasks has
\* exactly the tasks of the mirror that match the status and, with a
\* non-blank search string, contain it in title or description ignoring
\* case: each of them once, and nothing else.
C17_ViewMembership ==
  \A v \in Mounted :
    vm[v].filter.status \in {"all", "active", "completed"} =>
      LET f == SortedFilteredTasks(vm[v])
          m == vm[v].tasks
      IN  /\ \A i \in 1..Len(f) :
               \E j \in 1..Len(m) : m[j] = f[i] /\ Wanted(m[j], vm[v].filter)
          /\ \A j \in 1..Len(m) :
               Wanted(m[j], vm[v].filter)
                 => Cardinality({i \in 1..Len(f) : f[i] = m[j]}) = 1
          /\ Len(f) = Cardinality({j \in 1..Len(m) : Wanted(m[j], vm[v].filter)})

\* the active tasks are searched for " A": the second task matches by its
\* description, the first (title "Ab") and the third do not
C17_Witness ==
  /\ vm["V1"].filter = [status |-> "active", searchQuery |-> <<" ", "A">>]
  /\ Len(vm["V1"].tasks) = 3
  /\ \A i \in 1..3 : ~vm["V1"].tasks[i].completed
  /\ SortedFilteredTasks(vm["V1"]) = <<vm["V1"].tasks[2]>>

\* C18: totalTasks is the length of the mirror, completedTasks the number of
\* its completed tasks, activeTasks their difference, in every state; a step
\* that leaves the mirror as it is (a change of the filter or of the search
\* string) leaves the three counts as they are.
C18_Counts ==
  /\ [](\A v \in Mounted :
          /\ TotalTasks(vm[v]) = Len(vm[v].tasks)
          /\ CompletedTasks(vm[v]) =
               Cardinality({i \in 1..Len(vm[v].tasks) : vm[v].tasks[i].completed})
          /\ ActiveTasks(vm[v]) = TotalTasks(vm[v]) - CompletedTasks(vm[v]))
  /\ [][\A v \in VMs :
          vm'[v].tasks = vm[v].tasks
            => /\ TotalTasks(vm'[v]) = TotalTasks(vm[v])
               /\ CompletedTasks(vm'[v]) = CompletedTasks(vm[v])
               /\ ActiveTasks(vm'[v]) = ActiveTasks(vm[v])]_vars

\* three tasks, one completed, are counted while the view shows none of them
C18_Witness ==
  /\ vm["V1"].filter.status = "completed" /\ vm["V1"].filter.searchQuery = <<"a", "B">>
  /\ TotalTasks(vm["V1"]) = 3 /\ CompletedTasks(vm["V1"]) = 1
  /\ ActiveTasks(vm["V1"]) = 2
  /\ SortedFilteredTasks(vm["V1"]) = <<>>

\* the length of str without its leading and trailing white space
TrimmedLength(str) ==
  LET inner == {k \in 1..Len(str) : ~IsSpace(str[k])}
  IN  IF inner = {} THEN 0
      ELSE (CHOOSE k \in inner : \A j \in inner : j <= k)
             - (CHOOSE k \in inner : \A j \in inner : k <= j) + 1

Holds(errors, message) == \E i \in 1..Len(errors) : errors[i] = message

ValidationMessages ==
  {"Task title is required", "Task title must be 100 characters or less",
   "Task description must be 500 characters or less"}

\* C19: the list validateTaskInput returns holds 'Task title is required'
\* exactly when the title is missing, empty or white space, the title-length
\* message exactly when the trimmed title has more than 100 characters, the
\* description-length message exactly when the trimmed description has more
\* than 500, and nothing else; it is empty for {title: "ok"}; the call
\* leaves storage and the listeners alone and calls no listener.
C19_Validate ==
  /\ [](checked.called =>
          LET t == checked.input.title
              d == checked.input.description
              e == checked.errors
          IN  /\ Holds(e, "Task title is required")
                   <=> (t = Undef \/ TrimmedLength(t) = 0)
              /\ Holds(e, "Task title must be 100 characters or less")
                   <=> (t # Undef /\ TrimmedLength(t) > 100)
              /\ Holds(e, "Task description must be 500 characters or less")
                   <=> (d # Undef /\ TrimmedLength(d) > 500)
              /\ \A i, j \in 1..Len(e) :
                   e[i] \in ValidationMessages /\ (e[i] = e[j] => i = j)
              /\ (t = <<"o", "k">> /\ d = Undef) => e = <<>>)
  /\ [][checked' # checked
          => /\ checked'.errors = ValidateTaskInput(checked'.input)
             /\ storage' = storage /\ listeners' = listeners
             /\ emitted'.calls = NoEmit]_vars

\* a title of 100 characters between two blanks passes, the description of
\* 501 characters is reported
C19_Witness ==
  /\ checked.called
  /\ Len(checked.input.title) = 102 /\ checked.input.description # Undef
  /\ Len(checked.input.description) = 502
  /\ checked.errors = <<"Task description must be 500 characters or less">>

\* no store call and no load is in flight
Settled == Quiet /\ \A v \in Mounted : vm[v].loads = 0 /\ vm[v].awaits = {}

\* C15: with a store that works, whenever no store call and no load is in
\* flight, the mirror of every mounted instance is the stored collection,
\* task by task and field by field, also after clearAll from the settings
\* and after a save of the edit sheet.
C15_QuiescentMirror ==
  Settled => \A v \in Mounted : vm[v].tasks = Stored

\* two instances are mounted and settled after a save of the edit sheet
C15_Witness ==
  /\ Settled
  /\ Mounted = VMs
  /\ last.kind = "editvm" /\ last.ret = "task"
  /\ Stored # <<>>
  /\ \A v \in VMs : vm[v].tasks = Stored

C21_NotFoundSurfaced ==
  [][\A v \in VMs :
       (last' # last /\ last'.seq \in vm[v].awaits
          /\ last'.kind \in {"update", "toggle", "delete"}
          /\ last'.id \notin IdsOf(Stored)
          /\ last'.ret \in {"null", "false"})
       => vm'[v].error # Null]_vars

\* C22: addTask with an input validateTaskInput reports on starts no store
\* call: storage, the listeners and every mirror stay as they are, no
\* listener is called, and error of the instance is the first message; with
\* a valid input error is null when createTask is started.
C22_ValidationGate ==
  [][checked' # checked =>
       IF checked'.errors # <<>>
       THEN /\ call' = call /\ nextId' = nextId
            /\ storage' = storage /\ listeners' = listeners
            /\ emitted'.calls = NoEmit
            /\ \E v \in VMs :
                 /\ vm'[v] = [vm[v] EXCEPT !.error = checked'.errors[1]]
                 /\ \A w \in VMs \ {v} : vm'[w] = vm[w]
       ELSE \E v \in VMs, p \in Procs :
              /\ call[p].pc = "idle" /\ call'[p].kind = "create"
              /\ call'[p].updates = checked'.input
              /\ call'[p].seq \in vm'[v].awaits
              /\ vm'[v].error = Null
              /\ storage' = storage /\ emitted'.calls = NoEmit]_vars

\* a blank title was turned down while a task is stored and mirrored: the
\* message is in error, nothing was called
C22_Witness ==
  /\ checked.called /\ checked.errors # <<>>
  /\ vm[RootVM].error = "Task title is required"
  /\ vm[RootVM].tasks = Stored /\ Stored # <<>>
  /\ Quiet /\ last.kind = "none"

\* the step completes a write or a clear of the store
Notifying ==
  \E p \in Procs : call[p].pc \in WritePcs /\ call'[p].pc # call[p].pc

\* C23: an instance is subscribed exactly while it is mounted; while it is
\* mounted every notification of the store starts one load in it, and a load
\* that resolves replaces its mirror with the stored collection; an instance
\* that is unmounted is not called by any notification and has no load.
C23_SubscriptionLifetime ==
  /\ [](\A v \in VMs : vm[v].mounted <=> v \in listeners)
  /\ [](\A v \in VMs : ~vm[v].mounted => vm[v].loads = 0)
  /\ [][\A v \in VMs :
          /\ (Notifying /\ vm[v].mounted)
               => /\ emitted'.calls[v] = 1
                  /\ vm'[v].loads = vm[v].loads + 1
          /\ (vm[v].mounted /\ vm'[v].mounted /\ vm'[v].loads < vm[v].loads)
               => /\ vm'[v].loads = vm[v].loads - 1
                  /\ vm'[v].tasks = Stored
          /\ (~vm[v].mounted /\ ~vm'[v].mounted)
               => /\ emitted'.calls[v] = 0
                  /\ vm'[v] = vm[v]]_vars

\* the instance of RootNavigator has unmounted; a task was then stored and
\* the other instance, still mounted, was notified of it
C23_Witness ==
  /\ ~vm[RootVM].mounted /\ RootVM \notin listeners
  /\ \E v \in VMs : vm[v].mounted /\ emitted.calls[v] = 1 /\ vm[v].loads > 0
  /\ emitted.seq = last.seq /\ last.ret = "task"
  /\ emitted.calls[RootVM] = 0 /\ vm[RootVM].loads = 0

\* C24: an instance mounts with loading = true and its first load in
\* flight; loading turns false only when a load of the instance resolves
\* (the first to resolve is the initial one), it is false after every load
\* that resolves, with the tasks or with a rejected read, and while the
\* storage answers every request, loading = true leads to loading = false.
C24_LoadingFlag ==
  /\ [][\A v \in VMs :
          /\ (~vm[v].mounted /\ vm'[v].mounted)
               => (vm'[v].loading /\ vm'[v].loads = 1)
          /\ (vm[v].loading /\ ~vm'[v].loading)
               => (vm[v].mounted /\ vm'[v].loads = vm[v].loads - 1)
          /\ (vm[v].mounted /\ vm'[v].loads < vm[v].loads)
               => ~vm'[v].loading]_vars
  /\ [](\A v \in VMs : (vm[v].mounted /\ vm[v].loads = 0) => ~vm[v].loading)
  /\ \A v \in VMs : (vm[v].mounted /\ vm[v].loading) ~> ~vm[v].loading

\* the read of the initial load was rejected: the mirror is empty while a
\* task is stored, and loading is false
C24_Witness ==
  /\ vm[RootVM].mounted /\ ~vm[RootVM].loading /\ vm[RootVM].loads = 0
  /\ vm[RootVM].tasks = <<>> /\ Stored # <<>>
  /\ last.kind = "none" /\ Quiet

\* the persisted registry
Registry == ReadTags(tagReg.storage)

\* two names are the same after trimming, ignoring case
SameName(a, b) ==
  /\ Len(Trim(a)) = Len(Trim(b))
  /\ \A k \in 1..Len(Trim(a)) : LowerOf(Trim(a)[k]) = LowerOf(Trim(b)[k])

C26_DeletionFinal ==
  /\ (last.kind = "delete" /\ last.ret = "true") => last.id \notin IdsOf(Stored)
  /\ (prev.kind = "delete" /\ prev.ret = "true"
        /\ last.kind \in UpdateKinds /\ last.id = prev.id)
     => prev.id \notin IdsOf(Stored)

\* C26 as amended: when deleteTask has returned true the task is not
\* stored; a task that is not stored comes back only through the write of a
\* call whose read was made stale by another call's write (or is new, from
\* createTask), and where the task of a completed delete is stored again, the
\* call that completed after it had read before the delete wrote.
C26_FinalUnlessStaleWrite ==
  /\ []((last.kind = "delete" /\ last.ret = "true") => last.id \notin IdsOf(Stored))
  /\ []((prev.kind = "delete" /\ prev.ret = "true" /\ prev.id \in IdsOf(Stored))
          => prev.seq \in last.stale)
  /\ [][\A i \in Ids :
          (i \notin IdsOf(Stored) /\ i \in IdsOf(ReadTasks(storage')))
          => \/ last'.kind = "create" /\ last'.id = i
             \/ last'.stale # {}]_vars

\* toggleTaskCompletion had read the task before deleteTask wrote; it wrote
\* after deleteTask had returned true, and the task is stored again
C26_Witness ==
  /\ prev.kind = "delete" /\ prev.ret = "true"
  /\ last.kind = "toggle" /\ last.ret = "task" /\ last.id = prev.id
  /\ prev.seq \in last.stale
  /\ prev.id \in IdsOf(Stored)

CompletedOf(tasks, taskId) ==
  {tasks[i].completed : i \in {k \in 1..Len(tasks) : tasks[k].id = taskId}}

EditKinds == {"edit", "editvm"}

\* C28: neither of the two updates of an edit-sheet save changes the stored
\* completed flag of the task (here: when it writes what it read, no other
\* call having written in between), and when toggleTaskCompletion of the
\* task has completed between the two updates, the flag it stored is the
\* stored one after the save.
C28_EditKeepsCompleted ==
  /\ [][\A p \in Procs :
          (call[p].kind \in EditKinds /\ call[p].pc = "u_write"
             /\ call'[p].pc # "u_write" /\ call[p].stale = {})
          => CompletedOf(ReadTasks(storage'), call[p].id)
               = CompletedOf(Stored, call[p].id)]_vars
  /\ []((last.kind = "editvm" /\ last.ret = "task" /\ last.stale = {}
           /\ prev.kind = "toggle" /\ prev.ret = "task" /\ prev.id = last.id)
          => CompletedOf(Stored, last.id) = {prev.task.completed})

\* C29: with calls run one after the other, every task stored before a
\* createTask call is stored after it, whether the call returns the new task
\* or throws, also when its read of storage was rejected.
C29_CreateKeepsData ==
  [][\A p \in Procs :
       (call[p].kind = "create" /\ call'[p].pc # call[p].pc)
       => \A i \in 1..Len(Stored) :
            \E j \in 1..Len(ReadTasks(storage')) : ReadTasks(storage')[j] = Stored[i]]_vars

\* C30: the add-task sheet shows 'Task created successfully!' only in the
\* step that ends the createTask of its submit with the new task returned
\* and stored; when the addTask of the submit leaves a message in error,
\* the success alert is not shown.
C30_SuccessMeansPersisted ==
  [][(sheet' # sheet /\ sheet'.alert = "Task created successfully!")
       => /\ last' # last /\ last'.seq = sheet.awaits
          /\ last'.kind = "create" /\ last'.ret = "task"
          /\ \E i \in 1..Len(ReadTasks(storage')) :
               ReadTasks(storage')[i] = last'.task
          /\ vm'[RootVM].error = Null]_vars

====
